---- MODULE Spec2Model ----
(***************************************************************************)
(* grrs: a line-oriented substring search tool.                            *)
(*                                                                         *)
(* The library (src/grrs/src/lib.rs) has three operations: print_matches,  *)
(* write_matches and purge_file.  The driver (src/grrs/src/main.rs)        *)
(* validates the pattern, opens the input file and feeds it line by line   *)
(* to print_matches (standard output) or, after one purge_file, to         *)
(* write_matches (--outfile).                                              *)
(*                                                                         *)
(* Text is a sequence of one-character strings.  A file is a record        *)
(* [exists, data]; the filesystem maps paths to files.  Every operating    *)
(* system call that can fail (open, write, unlink) takes its outcome from  *)
(* an input chosen by the action that performs it.                         *)
(*                                                                         *)
(* Two specifications:                                                     *)
(*   Spec     the driver: a run of main and a second run after it          *)
(*   SpecLib  direct calls of the three library operations                 *)
(***************************************************************************)
EXTENDS Integers, Sequences, FiniteSets, TLC

(* ------------------------------ bounds -------------------------------- *)

\* longest input file, in characters
MaxFileLen == 3
\* longest pattern given to the driver, in characters
MaxPatLen == 2
\* longest text block given to a direct library call, in characters
MaxBlockLen == 3

(* ------------------------------- text --------------------------------- *)

NL == "\n"

\* characters of input files and text blocks
TextChars == {"a", "b", NL}
\* characters of patterns
PatChars == {"a", "b", " "}

SeqsUpTo(S, n) == UNION {[1..k -> S] : k \in 0..n}

IsPrefix(s, t) == Len(s) <= Len(t) /\ SubSeq(t, 1, Len(s)) = s

\* char::is_whitespace, restricted to the characters that occur
White_Space == {" ", NL, "\t", "\r"}

RECURSIVE trim_start(_)
trim_start(s) ==
  IF s # <<>> /\ Head(s) \in White_Space THEN trim_start(Tail(s)) ELSE s

RECURSIVE trim_end(_)
trim_end(s) ==
  IF s # <<>> /\ s[Len(s)] \in White_Space
  THEN trim_end(SubSeq(s, 1, Len(s) - 1)) ELSE s

\* str::trim
trim(s) == trim_end(trim_start(s))

\* the pattern test of main:  pattern.trim().is_empty()
pattern_is_empty_untrimmed(p) == p = <<>>
pattern_is_empty(p) == trim(p) = <<>>

\* index of the first newline of s, 0 when there is none
FirstNL(s) ==
  IF \E i \in 1..Len(s) : s[i] = NL
  THEN CHOOSE i \in 1..Len(s) : s[i] = NL /\ \A j \in 1..(i - 1) : s[j] # NL
  ELSE 0

\* str::lines: split at newlines; a final newline ends the last line and
\* does not start an empty one; the empty string has no lines.
RECURSIVE lines(_)
lines(s) ==
  IF s = <<>> THEN <<>>
  ELSE LET i == FirstNL(s) IN
       IF i = 0 THEN <<s>>
       ELSE <<SubSeq(s, 1, i - 1)>> \o lines(SubSeq(s, i + 1, Len(s)))

\* BufRead::lines over the opened input file: the same split, each item
\* without its newline
reader_lines(data) == lines(data)

\* str::contains with a string pattern
starts_with(line, pat) ==
  Len(pat) <= Len(line) /\ SubSeq(line, 1, Len(pat)) = pat
contains(line, pat) ==
  \E i \in 0..(Len(line) - Len(pat)) : SubSeq(line, i + 1, i + Len(pat)) = pat

DigitChars == <<"0", "1", "2", "3", "4", "5", "6", "7", "8", "9">>

RECURSIVE nat_to_string(_)
nat_to_string(n) ==
  IF n < 10 THEN <<DigitChars[n + 1]>>
  ELSE nat_to_string(n \div 10) \o <<DigitChars[(n % 10) + 1]>>

\* i32 Display
to_string(n) == IF n < 0 THEN <<"-">> \o nat_to_string(-n) ELSE nat_to_string(n)

\* "LINE# {}: {}\n", the number already rendered as text
format_record(numtext, line) ==
  <<"L", "I", "N", "E", "#", " ">> \o numtext \o <<":", " ">> \o line \o <<NL>>

\* the loop shared by print_matches and write_matches: one record for every
\* line that contains the pattern, all under the one number of the call
RECURSIVE match_bytes(_, _, _)
match_bytes(ls, numtext, pat) ==
  IF ls = <<>> THEN <<>>
  ELSE (IF contains(Head(ls), pat) THEN format_record(numtext, Head(ls)) ELSE <<>>)
         \o match_bytes(Tail(ls), numtext, pat)

\* how many bytes a call has to get out: the range of the point at which
\* the writer or the file may fail
OutputLen(content, num, pat) ==
  Len(match_bytes(lines(content), to_string(num), pat))

(* --------------------------- the library ------------------------------ *)

\* print_matches: every record goes to the writer with writeln!, whose
\* error is returned with `?`.  `cut` is the number of bytes the writer
\* accepts before it fails; cut = length of the output means no failure.
print_matches(content, num, pat, cut) ==
  LET full == match_bytes(lines(content), to_string(num), pat) IN
  [out |-> SubSeq(full, 1, cut), ok |-> cut >= Len(full)]

File(d) == [exists |-> TRUE, data |-> d]
Absent == [exists |-> FALSE, data |-> <<>>]

\* write_matches: open with create+append (openOk: the open succeeds), wrap
\* the handle in a BufWriter, writer.write(record)? for every matching
\* line, return Ok.  The records of one call are far shorter than the
\* BufWriter's buffer, so each write only copies into the buffer and
\* succeeds; the bytes reach the file when the BufWriter is dropped at the
\* end of the function, and the error of that flush is discarded.  `cut` is
\* the number of buffered bytes the file accepts before a write fails;
\* cut = length of the buffer means no failure.
write_matches(fsys, content, num, pat, outfile, openOk, cut) ==
  LET buffer == match_bytes(lines(content), to_string(num), pat)
      old == fsys[outfile].data
  IN IF ~openOk
     THEN [fs |-> fsys, ok |-> FALSE, os_error |-> TRUE]
     ELSE [fs |-> [fsys EXCEPT ![outfile] = File(old \o SubSeq(buffer, 1, cut))],
           ok |-> TRUE,
           os_error |-> cut < Len(buffer)]

\* purge_file: remove_file when the path exists (rmOk: the unlink succeeds)
purge_file_noop(fsys, outfile, rmOk) == [fs |-> fsys, ok |-> TRUE]
purge_file(fsys, outfile, rmOk) ==
  IF fsys[outfile].exists
  THEN IF rmOk THEN [fs |-> [fsys EXCEPT ![outfile] = Absent], ok |-> TRUE]
       ELSE [fs |-> fsys, ok |-> FALSE]
  ELSE [fs |-> fsys, ok |-> TRUE]

(* ----------------------------- the driver ----------------------------- *)

Paths == {"in.txt", "out.txt", "other.txt"}

\* what the output path may hold before a run: nothing, an empty file, or
\* the record of an earlier run
PriorData == format_record(to_string(9), <<"z">>)
PriorFiles == {Absent, File(<<>>), File(PriorData)}

\* the file no operation is asked to touch
OtherFile == File(<<"k", NL>>)

VARIABLES
  pattern,    \* args.pattern
  path,       \* args.path
  outfile,    \* args.outfile: <<>> is None, <<p>> is Some(p)
  fs,         \* the filesystem: path -> file
  stdout,     \* bytes written to standard output by the current run
  pc,         \* position of main
  err,        \* the error main returned, as the parts of its message
  reader,     \* lines of the input file not yet read
  line_num,   \* main's line_num
  purges,     \* calls of purge_file in the current run
  appends,    \* calls of write_matches in the current run
  run,        \* 1 in the first run, 2 in the run that follows it
  fs_start,   \* the filesystem when the current run started
  prev_out,   \* data of the output file when the previous run ended
  last        \* the last direct library call: arguments, state before, result

vars == <<pattern, path, outfile, fs, stdout, pc, err, reader, line_num,
          purges, appends, run, fs_start, prev_out, last>>

NoCall == [op |-> "none", content |-> <<>>, num |-> 0, pattern |-> <<>>,
           target |-> "", pre |-> <<>>, out |-> <<>>, ok |-> TRUE,
           os_error |-> FALSE]

\* operating system causes, as io::Error displays them
ENOENT == <<"No such file or directory", " (os error 2)">>
EACCES == <<"Permission denied", " (os error 13)">>
ENOSPC == <<"No space left on device", " (os error 28)">>
EPIPE == <<"Broken pipe", " (os error 32)">>

\* anyhow!("pattern appears to be empty")
validation_error == <<"pattern appears to be empty">>

\* An error message is the sequence of its parts: the fixed text of the
\* context (without the quotes it puts around the path), the displayed
\* path, then the parts of the cause.

\* with_context of File::open: "could not read file" and path.display()
read_error_bare(p, cause) == cause
read_error(p, cause) == <<"could not read file", p>> \o cause

\* with_context of purge_file: "could not create file" and outfile.display()
create_error(p, cause) == <<"could not create file", p>> \o cause

HasPart(msg, part) == \E i \in 1..Len(msg) : msg[i] = part

Init ==
  /\ pattern \in SeqsUpTo(PatChars, MaxPatLen)
  /\ path = "in.txt"
  /\ outfile \in {<<>>, <<"out.txt">>}
  /\ \E in \in {Absent} \cup {File(d) : d \in SeqsUpTo(TextChars, MaxFileLen)},
        out \in PriorFiles :
       fs = [p \in Paths |-> IF p = "in.txt" THEN in
                             ELSE IF p = "out.txt" THEN out ELSE OtherFile]
  /\ stdout = <<>>
  /\ pc = "validate"
  /\ err = <<>>
  /\ reader = <<>>
  /\ line_num = 0
  /\ purges = 0
  /\ appends = 0
  /\ run = 1
  /\ fs_start = fs
  /\ prev_out = <<>>
  /\ last = NoCall

Fail(e) == pc' = "failed" /\ err' = e

\* the validation of main with the purge of the output file moved ahead of it
Validate_purging ==
  /\ pc = "validate"
  /\ IF pattern_is_empty(pattern)
     THEN Fail(validation_error)
     ELSE pc' = "open" /\ UNCHANGED err
  /\ fs' = IF outfile = <<>> THEN fs ELSE purge_file(fs, outfile[1], TRUE).fs
  /\ UNCHANGED <<pattern, path, outfile, stdout, reader, line_num, purges,
                 appends, run, fs_start, prev_out, last>>

\* main.rs 30-33: reject an empty or whitespace-only pattern
Validate ==
  /\ pc = "validate"
  /\ IF pattern_is_empty(pattern)
     THEN Fail(validation_error)
     ELSE pc' = "open" /\ UNCHANGED err
  /\ UNCHANGED <<pattern, path, outfile, fs, stdout, reader, line_num, purges,
                 appends, run, fs_start, prev_out, last>>

\* main.rs 34-39: open the input file, start the line count, then branch
\* on args.outfile
OpenInput ==
  /\ pc = "open"
  /\ \E openOk \in BOOLEAN :
       IF ~fs[path].exists
       THEN Fail(read_error(path, ENOENT)) /\ UNCHANGED <<reader, line_num>>
       ELSE IF ~openOk
       THEN Fail(read_error(path, EACCES)) /\ UNCHANGED <<reader, line_num>>
       ELSE /\ reader' = reader_lines(fs[path].data)
            /\ line_num' = 0
            /\ pc' = IF outfile = <<>> THEN "print_loop" ELSE "purge"
            /\ UNCHANGED err
  /\ UNCHANGED <<pattern, path, outfile, fs, stdout, purges, appends, run,
                 fs_start, prev_out, last>>

\* main.rs 47-48: purge the output file once, before the loop
Purge ==
  /\ pc = "purge"
  /\ \E rmOk \in BOOLEAN :
       LET r == purge_file(fs, outfile[1], rmOk) IN
       /\ fs' = r.fs
       /\ IF r.ok THEN pc' = "write_loop" /\ UNCHANGED err
          ELSE Fail(create_error(outfile[1], EACCES))
  /\ purges' = purges + 1
  /\ UNCHANGED <<pattern, path, outfile, stdout, reader, line_num, appends,
                 run, fs_start, prev_out, last>>

\* main.rs 41-44: one iteration of the loop over standard output
PrintLine ==
  /\ pc = "print_loop"
  /\ reader # <<>>
  /\ line_num' = line_num + 1
  /\ \E cut \in 0..OutputLen(Head(reader), line_num', pattern) :
       LET r == print_matches(Head(reader), line_num', pattern, cut) IN
       /\ stdout' = stdout \o r.out
       /\ IF r.ok THEN UNCHANGED <<pc, err>> ELSE Fail(EPIPE)
  /\ reader' = Tail(reader)
  /\ UNCHANGED <<pattern, path, outfile, fs, purges, appends, run, fs_start,
                 prev_out, last>>

\* the loop over the output file with the purge moved into it
WriteLine_purging ==
  /\ pc = "write_loop"
  /\ reader # <<>>
  /\ line_num' = line_num + 1
  /\ \E openOk \in BOOLEAN,
        cut \in 0..OutputLen(Head(reader), line_num', pattern) :
       LET r == write_matches(purge_file(fs, outfile[1], TRUE).fs, Head(reader),
                              line_num', pattern, outfile[1], openOk, cut) IN
       /\ fs' = r.fs
       /\ IF r.ok THEN UNCHANGED <<pc, err>> ELSE Fail(EACCES)
  /\ purges' = purges + 1
  /\ appends' = appends + 1
  /\ reader' = Tail(reader)
  /\ UNCHANGED <<pattern, path, outfile, stdout, run, fs_start, prev_out, last>>

\* main.rs 49-52: one iteration of the loop over the output file
WriteLine ==
  /\ pc = "write_loop"
  /\ reader # <<>>
  /\ line_num' = line_num + 1
  /\ \E openOk \in BOOLEAN,
        cut \in 0..OutputLen(Head(reader), line_num', pattern) :
       LET r == write_matches(fs, Head(reader), line_num', pattern,
                              outfile[1], openOk, cut) IN
       /\ fs' = r.fs
       /\ IF r.ok THEN UNCHANGED <<pc, err>> ELSE Fail(EACCES)
  /\ appends' = appends + 1
  /\ reader' = Tail(reader)
  /\ UNCHANGED <<pattern, path, outfile, stdout, purges, run, fs_start,
                 prev_out, last>>

\* main.rs 56: the input is exhausted, main returns Ok(())
Finish ==
  /\ pc \in {"print_loop", "write_loop"}
  /\ reader = <<>>
  /\ pc' = "done"
  /\ UNCHANGED <<pattern, path, outfile, fs, stdout, err, reader, line_num,
                 purges, appends, run, fs_start, prev_out, last>>

\* the program is started a second time with the same arguments
Rerun ==
  /\ pc = "done"
  /\ run = 1
  /\ run' = 2
  /\ prev_out' = fs["out.txt"].data
  /\ fs_start' = fs
  /\ pc' = "validate"
  /\ stdout' = <<>>
  /\ line_num' = 0
  /\ purges' = 0
  /\ appends' = 0
  /\ UNCHANGED <<pattern, path, outfile, fs, err, reader, last>>

Next ==
  \/ Validate
  \/ OpenInput
  \/ Purge
  \/ PrintLine
  \/ WriteLine
  \/ Finish
  \/ Rerun

Spec == Init /\ [][Next]_vars

(* ----------------------- direct library calls ------------------------ *)

\* text blocks, numbers and patterns handed to a direct call
Blocks == SeqsUpTo(TextChars, MaxBlockLen)
Nums == {1, 12}
LibPatterns == SeqsUpTo({"a", "b"}, MaxPatLen)

InitLib ==
  /\ pattern = <<>>
  /\ path = "in.txt"
  /\ outfile = <<>>
  /\ \E out \in PriorFiles :
       fs = [p \in Paths |-> IF p = "in.txt" THEN Absent
                             ELSE IF p = "out.txt" THEN out ELSE OtherFile]
  /\ stdout = <<>>
  /\ pc = "lib"
  /\ err = <<>>
  /\ reader = <<>>
  /\ line_num = 0
  /\ purges = 0
  /\ appends = 0
  /\ run = 1
  /\ fs_start = fs
  /\ prev_out = <<>>
  /\ last = NoCall

driver_vars == <<pattern, path, outfile, stdout, err, reader, line_num,
                 purges, appends, run, fs_start, prev_out>>

\* lib.rs 20-33, called as in tests::print_a_match with a writer of its own
CallPrintMatches ==
  /\ pc = "lib"
  /\ \E content \in Blocks, num \in Nums, pat \in LibPatterns :
       \E cut \in 0..OutputLen(content, num, pat) :
         LET r == print_matches(content, num, pat, cut) IN
         last' = [op |-> "print_matches", content |-> content, num |-> num,
                  pattern |-> pat, target |-> "", pre |-> fs, out |-> r.out,
                  ok |-> r.ok, os_error |-> ~r.ok]
  /\ pc' = "returned"
  /\ UNCHANGED fs
  /\ UNCHANGED driver_vars

\* lib.rs 56-73, called as in tests::write_a_match
CallWriteMatches ==
  /\ pc = "lib"
  /\ \E content \in Blocks, num \in Nums, pat \in LibPatterns,
        openOk \in BOOLEAN :
       \E cut \in 0..OutputLen(content, num, pat) :
         LET r == write_matches(fs, content, num, pat, "out.txt", openOk, cut) IN
         /\ fs' = r.fs
         /\ last' = [op |-> "write_matches", content |-> content, num |-> num,
                     pattern |-> pat, target |-> "out.txt", pre |-> fs,
                     out |-> <<>>, ok |-> r.ok, os_error |-> r.os_error]
  /\ pc' = "returned"
  /\ UNCHANGED driver_vars

\* lib.rs 96-102, called as in tests::purge_a_file
CallPurgeFile ==
  /\ pc = "lib"
  /\ \E target \in {"out.txt", "other.txt"}, rmOk \in BOOLEAN :
       LET r == purge_file(fs, target, rmOk) IN
       /\ fs' = r.fs
       /\ last' = [op |-> "purge_file", content |-> <<>>, num |-> 0,
                   pattern |-> <<>>, target |-> target, pre |-> fs,
                   out |-> <<>>, ok |-> r.ok, os_error |-> ~r.ok]
  /\ pc' = "returned"
  /\ UNCHANGED driver_vars

NextLib ==
  \/ CallPrintMatches
  \/ CallWriteMatches
  \/ CallPurgeFile

SpecLib == InitLib /\ [][NextLib]_vars

(* ------------------------- claims: vocabulary ------------------------- *)

\* P occurs in l as a contiguous run of characters
HasSubstring(l, P) ==
  \E a \in 1..(Len(l) + 1), b \in 0..Len(l) :
    /\ b - a + 1 = Len(P)
    /\ [i \in 1..Len(P) |-> l[a + i - 1]] = P

AllWhitespace(P) == \A i \in 1..Len(P) : P[i] \in White_Space

RECURSIVE Flatten(_)
Flatten(ss) == IF ss = <<>> THEN <<>> ELSE Head(ss) \o Flatten(Tail(ss))

\* "LINE# n: l\n" for the lines l of L that contain P, in order, every
\* record under the same number n
RecordsUnder(L, n, P) ==
  LET hit(l) == HasSubstring(l, P)
      M == SelectSeq(L, hit)
  IN Flatten([i \in 1..Len(M) |-> format_record(to_string(n), M[i])])

\* "LINE# n: L[n]\n" for the positions n of L whose line contains P, in
\* increasing order of n
RECURSIVE RecordsByPosition(_, _, _)
RecordsByPosition(L, n, P) ==
  IF n > Len(L) THEN <<>>
  ELSE (IF HasSubstring(L[n], P) THEN format_record(to_string(n), L[n]) ELSE <<>>)
         \o RecordsByPosition(L, n + 1, P)

\* what the current run has emitted: standard output without --outfile,
\* the output file with it
Emitted == IF outfile = <<>> THEN stdout ELSE fs[outfile[1]].data

\* the current run has emitted nothing and changed no file
NoOutput == stdout = <<>> /\ fs = fs_start

\* main failed at File::open: past validation, before any output step
FailedAtOpen ==
  /\ pc = "failed"
  /\ ~AllWhitespace(pattern)
  /\ purges = 0
  /\ line_num = 0

(* ------------------------------ claims -------------------------------- *)

\* C1: a successful driver run with a pattern that is not empty or
\* whitespace-only has emitted exactly the records "LINE# n: L[n]\n" of the
\* input lines that contain the pattern, in increasing n, on standard
\* output or in the output file alike.
C1_RunEmitsNumberedMatches ==
  pc = "done" =>
    Emitted = RecordsByPosition(lines(fs_start[path].data), 1, pattern)

\* C2 (as stated): after a successful print_matches with a non-empty
\* pattern the sink holds the records of the lines of the block that
\* contain the pattern, in order, each numbered by its 1-based position in
\* the block.
C2_NumberedByPosition ==
  (last.op = "print_matches" /\ last.ok /\ last.pattern # <<>>) =>
    last.out = RecordsByPosition(lines(last.content), 1, last.pattern)

\* C2 (amended): after a successful print_matches with a non-empty pattern
\* the sink holds the records of the lines of the block that contain the
\* pattern, in order, each numbered by the number passed to the call.
C2_NumberedByArgument ==
  (last.op = "print_matches" /\ last.ok /\ last.pattern # <<>>) =>
    last.out = RecordsUnder(lines(last.content), last.num, last.pattern)

\* a successful call on a block whose two lines both match, under a number
\* that is not a position in the block
C2_Witness ==
  /\ last.op = "print_matches" /\ last.ok
  /\ last.content = <<"a", NL, "a">> /\ last.pattern = <<"a">> /\ last.num = 12
  /\ Len(last.out) = 2 * Len(format_record(to_string(12), <<"a">>))

\* C3: a second successful run with --outfile and the same arguments leaves
\* the output file with the content the first run left.
C3_SecondRunSameContent ==
  (run = 2 /\ pc = "done" /\ outfile # <<>>) =>
    fs[outfile[1]].data = prev_out

\* C4: a write_matches call in which opening the file or writing to it
\* failed returns an error, and a call that returns success has appended a
\* complete record for every matching line.
C4_NoSwallowedError ==
  last.op = "write_matches" =>
    /\ last.os_error => ~last.ok
    /\ last.ok =>
         LET recs == RecordsUnder(lines(last.content), last.num, last.pattern)
             data == fs[last.target].data
         IN /\ Len(recs) <= Len(data)
            /\ SubSeq(data, Len(data) - Len(recs) + 1, Len(data)) = recs

\* C5: a run whose pattern is empty or whitespace-only emits nothing and,
\* once it has taken its first step, has failed with "pattern appears to be
\* empty".
C5_EmptyPatternFails ==
  AllWhitespace(pattern) =>
    /\ NoOutput
    /\ pc # "validate" =>
         pc = "failed" /\ HasPart(err, "pattern appears to be empty")

\* a whitespace-only pattern rejected although the input has matching text
C5_Witness ==
  /\ pc = "failed"
  /\ pattern = <<" ", " ">>
  /\ outfile # <<>>
  /\ fs[path] = File(<<"a", NL, "b">>)

C7_AppendOnly ==
  (last.op = "write_matches" /\ last.ok) =>
    /\ fs[last.target].exists
    /\ IsPrefix(last.pre[last.target].data, fs[last.target].data)
    /\ fs[last.target].data =
         last.pre[last.target].data
           \o RecordsUnder(lines(last.content), last.num, last.pattern)

\* C8: purge_file succeeds and changes nothing when no file is at the path;
\* after every successful call no file is at the path; no call changes
\* another file.
C8_PurgeRemovesOnlyTarget ==
  last.op = "purge_file" =>
    /\ last.ok => ~fs[last.target].exists
    /\ ~last.pre[last.target].exists => last.ok /\ fs = last.pre
    /\ \A p \in Paths \ {last.target} : fs[p] = last.pre[p]

\* a successful purge of a file that held content
C8_Witness ==
  /\ last.op = "purge_file" /\ last.ok
  /\ last.target = "out.txt"
  /\ last.pre["out.txt"] = File(PriorData)

\* C9: in a run with --outfile, purge_file is called at most once, it has
\* been called exactly once whenever the run is in or past the write loop,
\* it is never called after a write_matches call of the run, and no step of
\* the write loop removes bytes already in the output file.
C9_State ==
  outfile # <<>> =>
    /\ purges <= 1
    /\ (pc \in {"write_loop", "done"} \/ appends > 0) => purges = 1
C9_Step ==
  /\ purges' > purges => appends = 0 /\ appends' = 0
  /\ (pc = "write_loop" /\ pc' # "validate") =>
       IsPrefix(fs[outfile[1]].data, fs'[outfile[1]].data)
C10_EarlyFailureLeavesOutput ==
  (pc = "failed" /\ outfile # <<>>
     /\ (HasPart(err, "pattern appears to be empty")
         \/ HasPart(err, "could not read file"))) =>
    /\ fs[outfile[1]] = fs_start[outfile[1]]
    /\ purges = 0
    /\ appends = 0

\* a validation failure with an output file that holds a record
C10_Witness ==
  /\ pc = "failed"
  /\ HasPart(err, "pattern appears to be empty")
  /\ outfile # <<>> /\ fs[outfile[1]] = File(PriorData)

====
